---- MODULE Spec2Model ----
(***************************************************************************)
(* Model of mycroft/api/__init__.py: the Api request pipeline (check_token, *)
(* build_path, send, get_response, refresh_token), the DeviceApi / STTApi   *)
(* facades that call it, and the module-level is_paired() cache.            *)
(*                                                                          *)
(* Python values are modelled as follows.                                   *)
(*   - A str is a sequence of chunks; "+" is \o; "" is <<>>.                *)
(*   - None is the one-chunk sentinel None.                                 *)
(*   - A dict is a function whose DOMAIN is its key set.  The params dict   *)
(*     holds its "headers" and "json" children by reference into heap, so   *)
(*     that copy(params), a shallow copy, shares them with the original.    *)
(*   - Each blocking requests.request call is a point where the thread      *)
(*     waits for the server; everything the code does between two such      *)
(*     calls is one step.                                                   *)
(***************************************************************************)
EXTENDS Integers, Sequences, FiniteSets, TLC

\* ------------------------------------------------------------------ bounds
\* Number of distinct access / refresh token values the backend hands out.
MaxTok == 2
\* Stand-in for Python's recursion limit, counted in nested send() frames.
MaxDepth == 3
\* Number of child dict objects (headers, json) that can be live at once.
MaxRefs == 6
\* Number of times a caller passes the same dict object to request() again.
MaxReuse == 1

Threads == {1, 2}
Refs == 1..MaxRefs

\* ------------------------------------------------------- Python primitives
None == <<"None">>
EmptyDict == [k \in {} |-> None]

Get(d, k, default) == IF k \in DOMAIN d THEN d[k] ELSE default

Put(d, k, v) == [x \in (DOMAIN d) \cup {k} |-> IF x = k THEN v ELSE d[x]]

\* str.endswith for a suffix that is one chunk of the modelled string
EndsWith(s, chunk) == Len(s) > 0 /\ s[Len(s)] = chunk

Last(s) == s[Len(s)]

\* ------------------------------------------------------ tokens, identities
AccessTokens == {<<"A", i>> : i \in 1..MaxTok}
RefreshTokens == {<<"R", i>> : i \in 1..MaxTok}
UUIDs == {<<>>, <<"xyz">>}

\* The data a successful auth/token response carries: the uuid of the paired
\* device and the i-th access / refresh token pair.
TokenData ==
    {[uuid |-> <<"xyz">>, accessToken |-> <<"A", i>>,
      refreshToken |-> <<"R", i>>] : i \in 1..MaxTok}

\* The backend issues token pairs in order: an auth/token response carries the
\* pair that follows the one in use, or that pair once more.
TokensAfter(access) ==
    {td \in TokenData : td.accessToken[2] \in {access[2], access[2] + 1}}

\* DeviceIdentity as the pipeline sees it: .access, .refresh, .uuid and the
\* outcome of .is_expired() at the present time.
Identities ==
    [access : AccessTokens, refresh : RefreshTokens \cup {<<>>},
     uuid : UUIDs \cup {None}, expired : BOOLEAN]

\* The identity IdentityManager.get() finds when the process starts.
InitialIdentities ==
    {id \in Identities : id.access = <<"A", 1>> /\ id.refresh \in {<<>>, <<"R", 1>>}
                          /\ ~id.expired}

\* ------------------------------------------------------------ client config
\* Api.__init__: self.path is the resource path given by the subclass,
\* self.url and self.version come from the "server" configuration.
ServerUrl == <<"https://api.test">>
ServerVersion == <<"v1">>

\* Long-lived clients (one DeviceApi, one STTApi) and, per thread, the
\* DeviceApi instance that is_paired() constructs for one check.
TempClient == <<"tmp1", "tmp2">>
Clients == {"device", "stt"} \cup {TempClient[t] : t \in Threads}

ApiInit(c) ==
    [path |-> IF c = "stt" THEN <<"stt">> ELSE <<"device">>,
     url |-> ServerUrl,
     version |-> ServerVersion]

\* self.old_params before the first request() of a client: no such attribute
NoParams == [unset |-> TRUE]

\* ------------------------------------------------------------- object heap
\* The references a params dict holds to child dict objects.
ChildRefs(d) == {d[k] : k \in (DOMAIN d) \cap {"headers", "json"}}

\* The lowest reference that no live dict holds.
FreeRef(used) == CHOOSE r \in Refs \ used : \A q \in Refs \ used : r <= q


\* A dict literal written by a caller, its nested "headers" / "json" dicts
\* given by value: the objects are created and the params dict refers to them.
NewDict(lit, h, used) ==
    LET needH == "headers" \in DOMAIN lit
        rH == FreeRef(used)
        used1 == IF needH THEN used \cup {rH} ELSE used
        needJ == "json" \in DOMAIN lit
        rJ == FreeRef(used1)
    IN  [heap |-> [r \in Refs |->
                     IF needH /\ r = rH THEN lit.headers
                     ELSE IF needJ /\ r = rJ THEN lit.json
                     ELSE h[r]],
         params |-> [k \in DOMAIN lit |->
                       IF k = "headers" THEN rH
                       ELSE IF k = "json" THEN rJ
                       ELSE lit[k]]]

\* The contents of a params dict with its children read through the heap.
Deep(h, d) ==
    [k \in DOMAIN d |-> IF k \in {"headers", "json"} THEN h[d[k]] ELSE d[k]]

\* ------------------------------------------------------------ Api.build_*
Bearer(token) == <<"Bearer ">> \o token

add_content_type(headers) ==
    IF "Content-Type" \notin DOMAIN headers
    THEN Put(headers, "Content-Type", <<"application/json">>)
    ELSE headers

add_authorization(headers, access) ==
    IF "Authorization" \notin DOMAIN headers
    THEN Put(headers, "Authorization", Bearer(access))
    ELSE headers

\* headers = params.get("headers", {}): the caller's dict object when there is
\* one, a new object otherwise; it is filled in place and stored in params.
build_headers(h, params, access, used) ==
    LET r == IF "headers" \in DOMAIN params THEN params["headers"]
             ELSE FreeRef(used)
        h0 == IF "headers" \in DOMAIN params THEN h[r] ELSE EmptyDict
        headers == add_authorization(add_content_type(h0), access)
    IN  [heap |-> [h EXCEPT ![r] = headers],
         params |-> Put(params, "headers", r),
         headers |-> headers]

build_data(params) == Get(params, "data", None)

\* json=None as handed to requests.request
JsonNone == [None |-> TRUE]

\* the loop of build_json: every "" value becomes None
NullEmpty(json) == [k \in DOMAIN json |-> IF json[k] = <<>> THEN None ELSE json[k]]

\* Runs after build_headers, so params["headers"] exists.
\* Variant that does not look at the Content-Type.
build_json_any_type(h, params) ==
    IF "json" \in DOMAIN params
    THEN LET r == params["json"]
             json == h[r]
         IN  IF DOMAIN json # {}
             THEN [heap |-> [h EXCEPT ![r] = NullEmpty(json)],
                   params |-> params,
                   json |-> NullEmpty(json)]
             ELSE [heap |-> h, params |-> params, json |-> json]
    ELSE [heap |-> h, params |-> params, json |-> JsonNone]

build_json(h, params) ==
    IF "json" \in DOMAIN params
    THEN LET r == params["json"]
             json == h[r]
         IN  IF DOMAIN json # {}
                /\ h[params["headers"]]["Content-Type"] = <<"application/json">>
             THEN [heap |-> [h EXCEPT ![r] = NullEmpty(json)],
                   params |-> params,
                   json |-> NullEmpty(json)]
             ELSE [heap |-> h, params |-> params, json |-> json]
    ELSE [heap |-> h, params |-> params, json |-> JsonNone]

build_query(params) == Get(params, "query", None)

build_path(self, params) ==
    Put(params, "path", self.path \o Get(params, "path", <<>>))

\* Variant that always takes the configured version.
build_url_configured_version(self, params) ==
    self.url \o <<"/">> \o self.version \o <<"/">> \o Get(params, "path", <<>>)

build_url(self, params) ==
    self.url \o <<"/">> \o Get(params, "version", self.version) \o <<"/">>
        \o Get(params, "path", <<>>)

\* Api.send up to the requests.request call: the dict given is mutated and
\* the request that goes on the wire is assembled.
send(h, params, self, access, used) ==
    LET bh == build_headers(h, params, access, used)
        bj == build_json(bh.heap, bh.params)
    IN  [heap |-> bj.heap,
         params |-> bj.params,
         req |-> [method |-> Get(params, "method", "GET"),
                  url |-> build_url(self, bj.params),
                  headers |-> bh.headers,
                  query |-> build_query(bj.params),
                  data |-> build_data(bj.params),
                  json |-> bj.json]]

\* The dict refresh_token hands to send, and the request that results; the
\* dict and its headers object are dropped when send returns.
refresh_request(self, id) ==
    LET lit == [path |-> <<"auth/token">>,
                headers |-> [Authorization |-> Bearer(id.refresh)]]
        nd == NewDict(lit, [r \in Refs |-> EmptyDict], {})
    IN  send(nd.heap, nd.params, self, id.access, ChildRefs(nd.params)).req

\* ------------------------------------------------------ Api.get_response
\* response.url as requests reports it: the URL with the query string.
ResponseUrl(req) ==
    IF req.query = None THEN req.url ELSE req.url \o <<"?">> \o req.query

\* get_data: the parsed JSON when the body parses, the raw text otherwise
get_data(body) ==
    IF body[1] = "json" THEN <<"obj", body[2]>> ELSE <<"str", body[2]>>

\* The branch get_response takes.
\* Variants of get_response that differ from the code in one branch each;
\* the specification uses none of them.
get_response_no_retry(status, url) ==
    IF 200 <= status /\ status < 300 THEN "return" ELSE "raise"

get_response_300_ok(status, url) ==
    IF 200 <= status /\ status <= 300 THEN "return"
    ELSE IF status = 401 /\ ~EndsWith(url, "auth/token") THEN "refresh"
    ELSE "raise"

get_response_any_401(status, url) ==
    IF 200 <= status /\ status < 300 THEN "return"
    ELSE IF status = 401 THEN "refresh"
    ELSE "raise"

get_response_no_raise(status, url) ==
    IF status = 401 /\ ~EndsWith(url, "auth/token") THEN "refresh"
    ELSE "return"

get_response(status, url) ==
    IF 200 <= status /\ status < 300 THEN "return"
    ELSE IF status = 401 /\ ~EndsWith(url, "auth/token") THEN "refresh"
    ELSE "raise"

\* ------------------------------------------------- IdentityManager (extern)
\* IdentityManager.load(): the identity as persisted.
load(st) == st

\* IdentityManager.save(data): the identity the token data describes; it is
\* persisted and becomes the in-memory identity.
save(data) ==
    [access |-> data[2].accessToken,
     refresh |-> data[2].refreshToken,
     uuid |-> data[2].uuid,
     expired |-> FALSE]

\* IdentityManager.update(): the identity with its registration state (the
\* uuid) as it is now.
update(id, uuid) == [id EXCEPT !.uuid = uuid]

\* Api.check_token: the identity the client holds afterwards, whether it was
\* reloaded, and whether refresh_token() is called.
\* Variant that refreshes whenever the in-memory token is expired, whatever
\* the reloaded identity says.
check_token_no_second_look(id, st) ==
    IF id.refresh # <<>> /\ id.expired
    THEN [identity |-> load(st), loaded |-> TRUE, refresh |-> TRUE]
    ELSE [identity |-> id, loaded |-> FALSE, refresh |-> FALSE]

check_token(id, st) ==
    IF id.refresh # <<>> /\ id.expired
    THEN [identity |-> load(st), loaded |-> TRUE, refresh |-> load(st).expired]
    ELSE [identity |-> id, loaded |-> FALSE, refresh |-> FALSE]

\* is_paired, the value assigned to __paired_cache after a successful get()
\* Variant that takes the empty uuid for a pairing.
paired_value_not_none(uuid) == uuid # None

paired_value(uuid) == uuid # None /\ uuid # <<>>

\* ------------------------------------------------------------------ inputs
\* Response statuses the backend may answer with, and response bodies.
Statuses == {200, 300, 401, 500}
Bodies == {<<"json", "d1">>, <<"text", "plain">>}
BodiesFor(status) ==
    IF 200 <= status /\ status < 300 THEN Bodies ELSE {<<"text", "denied">>}

\* DeviceApi.get: the dict it passes to request()
DeviceGet(uuid) == [path |-> <<"/">> \o uuid]

\* DeviceApi.get_code: the dict it passes to request()
DeviceGetCode(state) == [path |-> <<"/code?state=">> \o state]

\* DeviceApi.activate (state may be the empty string)
DeviceActivate(state) ==
    [method |-> "POST", path |-> <<"/activate">>,
     json |-> [state |-> state, token |-> <<"tk">>]]

\* STTApi.stt
STT ==
    [method |-> "POST",
     headers |-> Put(EmptyDict, "Content-Type", <<"audio/x-flac">>),
     query |-> <<"lang=en&limit=1">>,
     data |-> <<"flac">>]

\* Direct callers of Api.request: an explicit Authorization, and a version
\* override with a JSON body under another Content-Type.
WithAuthorization ==
    [path |-> <<"/x">>, headers |-> [Authorization |-> <<"Basic ", "C", 0>>]]

WithVersion ==
    [path |-> <<"/y">>, version |-> <<"v2">>,
     headers |-> Put(EmptyDict, "Content-Type", <<"text/plain">>),
     json |-> [a |-> <<>>, b |-> <<"x">>]]

\* A direct caller that names the JSON Content-Type itself.
WithJsonType ==
    [method |-> "POST", path |-> <<"/z">>,
     headers |-> Put(EmptyDict, "Content-Type", <<"application/json">>),
     json |-> [a |-> <<>>, b |-> <<"x">>]]

\* The dicts a caller may pass to client c, given the identity at call time.
SpecsFor(c, id) ==
    IF c = "stt" THEN {STT}
    ELSE {DeviceActivate(<<>>), DeviceActivate(<<"st">>), WithAuthorization,
          WithVersion, WithJsonType}
         \cup (IF id.uuid # None THEN {DeviceGet(id.uuid)} ELSE {})

\* ------------------------------------------------------------------- state
VARIABLES
    threads,       \* the threads that call into the module
    api,           \* the long-lived client the callers use
    identity,      \* the in-memory identity (IdentityManager.get())
    store,         \* the persisted identity (what IdentityManager.load() reads)
    paired_cache,  \* module global __paired_cache
    old_params,    \* per client: self.old_params
    heap,          \* headers / json dict objects
    params,        \* per thread: the params dict object of its caller
    pc,            \* per thread: "idle", "wait" (inside requests.request),
                   \* or "done" (the call has returned or raised)
    stack,         \* per thread: the nested send() frames, innermost last
    log,           \* per thread: what the current / last call did, in order
    result,        \* per thread: how the last call ended
    call           \* per thread: the current / last call

vars == <<threads, api, identity, store, paired_cache, old_params, heap, params,
          pc, stack, log, result, call>>

NoResult == [outcome |-> "none", data |-> None, status |-> 0, url |-> <<>>]

Live(ps, ops) ==
    UNION {ChildRefs(ps[t]) : t \in Threads}
        \cup UNION {ChildRefs(ops[c]) : c \in Clients}

\* Object addresses carry no meaning: after each step the objects no live
\* dict refers to are collected, and the live ones are renumbered in the
\* order in which the dicts (each thread's params, then each client's
\* old_params) refer to them.
Holders(ps, ops) ==
    <<ps[1], ps[2], ops["device"], ops["stt"], ops["tmp1"], ops["tmp2"]>>

SlotRef(ds, n) ==
    LET d == ds[(n + 1) \div 2]
        k == IF n % 2 = 1 THEN "headers" ELSE "json"
    IN  IF k \in DOMAIN d THEN d[k] ELSE 0

\* The new number of each live object: its rank by first reference.
Renumbering(slots, live) ==
    [r \in live |->
        Cardinality({slots[m] :
            m \in 1..(CHOOSE n \in 1..12 :
                        slots[n] = r /\ \A j \in 1..(n - 1) : slots[j] # r)}
            \ {0})]

Rename(new, d) ==
    [k \in DOMAIN d |-> IF k \in {"headers", "json"} THEN new[d[k]] ELSE d[k]]

Renumbered(h, ps, ops, live, new) ==
    [heap |-> [n \in Refs |->
                 IF n <= Cardinality(live)
                 THEN h[CHOOSE r \in live : new[r] = n]
                 ELSE EmptyDict],
     params |-> [t \in Threads |-> Rename(new, ps[t])],
     old_params |-> [c \in Clients |-> Rename(new, ops[c])]]

CollectSlots(h, ps, ops, slots, live) ==
    Renumbered(h, ps, ops, live, Renumbering(slots, live))

Collect(h, ps, ops) ==
    CollectSlots(h, ps, ops,
                 [n \in 1..12 |-> SlotRef(Holders(ps, ops), n)],
                 Live(ps, ops))

SendEvent(kind, req, id) ==
    [ev |-> "send", kind |-> kind, req |-> req, access |-> id.access]

RespEvent(status, data, url) ==
    [ev |-> "resp", status |-> status, data |-> data, url |-> url]

InitCommon ==
    /\ api \in {"device", "stt"}
    /\ identity \in InitialIdentities
    /\ store = identity
    /\ paired_cache = FALSE
    /\ old_params = [c \in Clients |-> NoParams]
    /\ heap = [r \in Refs |-> EmptyDict]
    /\ params = [t \in Threads |-> EmptyDict]
    /\ pc = [t \in Threads |-> "idle"]
    /\ stack = [t \in Threads |-> <<>>]
    /\ log = [t \in Threads |-> <<>>]
    /\ result = [t \in Threads |-> NoResult]
    /\ call = [t \in Threads |->
                 [op |-> "none", client |-> "device", lit |-> EmptyDict,
                  reuse |-> 0]]

\* One caller thread.
Init == threads = {1} /\ InitCommon

\* ---------------------------------------------------------- ending a call
\* is_paired before the try block: the cached True is returned; otherwise
\* DeviceApi() is constructed and get() evaluates "/" + uuid, either of which
\* may raise into the except clause.
\* Variant that ignores the cache.
is_paired_start_uncached(cache, constructed, uuid) ==
    IF constructed /\ uuid # None THEN "get" ELSE "except"

is_paired_start(cache, constructed, uuid) ==
    IF cache THEN "true"
    ELSE IF constructed /\ uuid # None THEN "get"
    ELSE "except"

\* is_paired after api.get() ended with res: what it returns and the value
\* of __paired_cache afterwards.
\* Variant without the except clause: the error reaches the caller.
is_paired_end_reraises(res, uuid, cache) ==
    IF res.outcome = "data"
    THEN [outcome |-> IF paired_value(uuid) THEN "true" ELSE "false",
          cache |-> paired_value(uuid)]
    ELSE [outcome |-> res.outcome, cache |-> cache]

is_paired_end(res, uuid, cache) ==
    IF res.outcome = "data"
    THEN [outcome |-> IF paired_value(uuid) THEN "true" ELSE "false",
          cache |-> paired_value(uuid)]
    ELSE [outcome |-> "false", cache |-> cache]

PairedResult(outcome) ==
    [outcome |-> outcome, data |-> None, status |-> 0, url |-> <<>>]

\* The outermost request() returns or raises res.  Inside is_paired() the
\* outcome is turned into a boolean, the cache is assigned after a successful
\* get(), and the DeviceApi instance is dropped.
Finish(t, res, lg) ==
    LET c == call[t].client
        isp == call[t].op = "is_paired"
        end == is_paired_end(res, identity.uuid, paired_cache)
    IN  /\ pc' = [pc EXCEPT ![t] = "done"]
        /\ stack' = [stack EXCEPT ![t] = <<>>]
        /\ log' = [log EXCEPT ![t] = lg]
        /\ result' = [result EXCEPT ![t] =
                         IF isp THEN PairedResult(end.outcome) ELSE res]
        /\ paired_cache' = IF isp THEN end.cache ELSE paired_cache
        /\ \E g \in {Collect(heap,
                     IF isp THEN [params EXCEPT ![t] = EmptyDict] ELSE params,
                     IF isp THEN [old_params EXCEPT ![c] = NoParams]
                     ELSE old_params)} :
               /\ heap' = g.heap
               /\ params' = g.params
               /\ old_params' = g.old_params
        /\ UNCHANGED <<threads, api, identity, store, call>>

\* ------------------------------------------------------------ Api.request
\* Lines 44-46 and send up to requests.request: build_path on the caller's
\* dict P, old_params = copy(params), send(params).
Proceed(t, c, P, h, id, lg) ==
    \E P1 \in {build_path(ApiInit(c), P)} :
    \E s \in {send(h, P1, ApiInit(c), id.access,
                  Live([params EXCEPT ![t] = P1], [old_params EXCEPT ![c] = P1]))} :
    \E g \in {Collect(s.heap, [params EXCEPT ![t] = s.params], [old_params EXCEPT ![c] = P1])} :
        /\ params' = g.params
        /\ old_params' = g.old_params
        /\ heap' = g.heap
        /\ stack' = [stack EXCEPT ![t] = <<"orig">>]
        /\ log' = [log EXCEPT ![t] = Append(lg, SendEvent("orig", s.req, id))]
        /\ pc' = [pc EXCEPT ![t] = "wait"]

\* Api.request from its first line to the first requests.request call:
\* check_token (which may send the refresh request first), then Proceed.
Begin(t, c, op, P, h, reuse, id) ==
    LET ct == check_token(id, store)
        lg0 == IF ct.loaded THEN <<[ev |-> "load"]>> ELSE <<>>
    IN  /\ call' = [call EXCEPT ![t] =
                      [op |-> op, client |-> c, lit |-> Deep(h, P),
                       reuse |-> reuse]]
        /\ result' = [result EXCEPT ![t] = NoResult]
        /\ identity' = ct.identity
        /\ UNCHANGED <<threads, api, store, paired_cache>>
        /\ IF ct.refresh
           THEN /\ \E g \in {Collect(h, [params EXCEPT ![t] = P], old_params)} :
                       /\ params' = g.params
                       /\ old_params' = g.old_params
                       /\ heap' = g.heap
                /\ stack' = [stack EXCEPT ![t] = <<"refresh">>]
                /\ log' = [log EXCEPT ![t] =
                             Append(lg0, SendEvent("refresh",
                                 refresh_request(ApiInit(c), ct.identity),
                                 ct.identity))]
                /\ pc' = [pc EXCEPT ![t] = "wait"]
           ELSE Proceed(t, c, P, h, ct.identity, lg0)

\* A caller passes a newly written dict to request() of a long-lived client.
Request(t) ==
    /\ t \in threads
    /\ pc[t] = "idle"
    /\ \E lit \in SpecsFor(api, identity) :
       \E nd \in {NewDict(lit, heap,
                          Live([params EXCEPT ![t] = EmptyDict], old_params))} :
          Begin(t, api, "request", nd.params, nd.heap, 0, identity)

\* A caller passes the dict object of the request() call that just ended
\* to request() again.
RequestSame(t) ==
    /\ t \in threads
    /\ pc[t] = "done"
    /\ call[t].op = "request"
    /\ call[t].reuse < MaxReuse
    /\ Begin(t, call[t].client, "request", params[t], heap,
             call[t].reuse + 1, identity)

\* DeviceApi.get_code: IdentityManager.update(), then request().
GetCode(t) ==
    /\ t \in threads
    /\ pc[t] = "idle"
    /\ api = "device"
    /\ \E uuid \in UUIDs :
       \E nd \in {NewDict(DeviceGetCode(<<"s1">>), heap,
                          Live([params EXCEPT ![t] = EmptyDict], old_params))} :
          Begin(t, api, "request", nd.params, nd.heap, 0,
                update(identity, uuid))

\* is_paired() returns without a request: the cached True, or False from
\* the except clause.
ReturnPaired(t, outcome, lg) ==
    /\ result' = [result EXCEPT ![t] = PairedResult(outcome)]
    /\ log' = [log EXCEPT ![t] = lg]
    /\ call' = [call EXCEPT ![t] =
                  [op |-> "is_paired", client |-> TempClient[t],
                   lit |-> EmptyDict, reuse |-> 0]]
    /\ pc' = [pc EXCEPT ![t] = "done"]
    /\ UNCHANGED <<threads, api, identity, store, paired_cache, old_params,
                   heap, params, stack>>

\* is_paired() up to its first requests.request call, or to its return when
\* it makes none.
IsPaired(t) ==
    /\ t \in threads
    /\ pc[t] = "idle"
    /\ \E constructed \in BOOLEAN :
       \E start \in {is_paired_start(paired_cache, constructed, identity.uuid)} :
          CASE start = "true" -> ReturnPaired(t, "true", <<>>)
            [] start = "except" ->
                  ReturnPaired(t, "false", <<[ev |-> "except"]>>)
            [] start = "get" ->
                  \E nd \in {NewDict(DeviceGet(identity.uuid), heap,
                                Live([params EXCEPT ![t] = EmptyDict],
                                     old_params))} :
                     Begin(t, TempClient[t], "is_paired", nd.params, nd.heap,
                           0, identity)

\* The caller goes on after a call: it drops the dict it passed, and what
\* the call did is no longer looked at.
CallerContinues(t) ==
    /\ pc[t] = "done"
    /\ pc' = [pc EXCEPT ![t] = "idle"]
    /\ log' = [log EXCEPT ![t] = <<>>]
    /\ result' = [result EXCEPT ![t] = NoResult]
    /\ call' = [call EXCEPT ![t] =
                  [op |-> "none", client |-> "device", lit |-> EmptyDict,
                   reuse |-> 0]]
    /\ \E g \in {Collect(heap, [params EXCEPT ![t] = EmptyDict], old_params)} :
          /\ heap' = g.heap
          /\ params' = g.params
          /\ old_params' = g.old_params
    /\ UNCHANGED <<threads, api, identity, store, paired_cache, stack>>

\* ------------------------------------------------- responses from the wire
Pending(t) == Last(log[t]).req

\* A 2xx answer to a request that is not the refresh request: get_response
\* returns the data, and so does every send frame up to request().
RespondOk(t) ==
    /\ pc[t] = "wait"
    /\ Last(stack[t]) # "refresh"
    /\ \E status \in Statuses : \E body \in BodiesFor(status) :
         LET url == ResponseUrl(Pending(t))
             data == get_data(body)
         IN  /\ get_response(status, url) = "return"
             /\ Finish(t, [outcome |-> "data", data |-> data,
                           status |-> status, url |-> url],
                       Append(log[t], RespEvent(status, data, url)))

\* A 2xx answer to the refresh request: refresh_token saves the token data;
\* then request() goes on (refresh from check_token) or get_response sends
\* self.old_params (refresh after a 401).
\* Variant in which get_response sends self.old_params first and the token
\* data is saved afterwards.
RespondRefreshed_save_late(t) ==
    /\ pc[t] = "wait"
    /\ Last(stack[t]) = "refresh"
    /\ \E status \in Statuses, td \in TokensAfter(identity.access) :
         LET url == ResponseUrl(Pending(t))
             data == get_data(<<"json", td>>)
             c == call[t].client
             lg == log[t] \o <<RespEvent(status, data, url),
                               [ev |-> "save", data |-> data]>>
         IN  /\ get_response(status, url) = "return"
             /\ identity' = save(data)
             /\ store' = save(data)
             /\ UNCHANGED <<threads, api, paired_cache, result, call>>
             /\ IF Len(stack[t]) = 1
                THEN Proceed(t, c, params[t], heap, identity', lg)
                ELSE \E s \in {send(heap, old_params[c], ApiInit(c),
                                   identity.access, Live(params, old_params))} :
                     \E g \in {Collect(s.heap, params,
                                      [old_params EXCEPT ![c] = s.params])} :
                         /\ old_params' = g.old_params
                         /\ params' = g.params
                         /\ heap' = g.heap
                         /\ stack' = [stack EXCEPT ![t] =
                               Append(SubSeq(@, 1, Len(@) - 1), "retry")]
                         /\ log' = [log EXCEPT ![t] =
                               log[t] \o <<RespEvent(status, data, url),
                                           SendEvent("retry", s.req, identity),
                                           [ev |-> "save", data |-> data]>>]
                         /\ pc' = pc

RespondRefreshed(t) ==
    /\ pc[t] = "wait"
    /\ Last(stack[t]) = "refresh"
    /\ \E status \in Statuses, td \in TokensAfter(identity.access) :
         LET url == ResponseUrl(Pending(t))
             data == get_data(<<"json", td>>)
             c == call[t].client
             lg == log[t] \o <<RespEvent(status, data, url),
                               [ev |-> "save", data |-> data]>>
         IN  /\ get_response(status, url) = "return"
             /\ identity' = save(data)
             /\ store' = save(data)
             /\ UNCHANGED <<threads, api, paired_cache, result, call>>
             /\ IF Len(stack[t]) = 1
                THEN Proceed(t, c, params[t], heap, identity', lg)
                ELSE \E s \in {send(heap, old_params[c], ApiInit(c),
                                   identity'.access, Live(params, old_params))} :
                     \E g \in {Collect(s.heap, params,
                                      [old_params EXCEPT ![c] = s.params])} :
                         /\ old_params' = g.old_params
                         /\ params' = g.params
                         /\ heap' = g.heap
                         /\ stack' = [stack EXCEPT ![t] =
                               Append(SubSeq(@, 1, Len(@) - 1), "retry")]
                         /\ log' = [log EXCEPT ![t] =
                               Append(lg, SendEvent("retry", s.req, identity'))]
                         /\ pc' = pc

\* A 401 from a URL that does not end with "auth/token": get_response calls
\* refresh_token, which sends the refresh request one frame deeper; at the
\* recursion limit the call raises RuntimeError instead.
RespondAuthExpired(t) ==
    /\ pc[t] = "wait"
    /\ \E status \in Statuses : \E body \in BodiesFor(status) :
         LET url == ResponseUrl(Pending(t))
             data == get_data(body)
             c == call[t].client
             lg == Append(log[t], RespEvent(status, data, url))
         IN  /\ get_response(status, url) = "refresh"
             /\ IF Len(stack[t]) >= MaxDepth
                THEN Finish(t, [outcome |-> "RuntimeError", data |-> None,
                                status |-> 0, url |-> <<>>], lg)
                ELSE /\ stack' = [stack EXCEPT ![t] = Append(@, "refresh")]
                     /\ log' = [log EXCEPT ![t] =
                           Append(lg, SendEvent("refresh",
                               refresh_request(ApiInit(c), identity), identity))]
                     /\ UNCHANGED <<threads, api, identity, store, paired_cache,
                                    old_params, heap, params, pc, result, call>>

\* Any other answer: get_response raises HTTPError(data, response=response),
\* which no frame catches.
RespondError(t) ==
    /\ pc[t] = "wait"
    /\ \E status \in Statuses : \E body \in BodiesFor(status) :
         LET url == ResponseUrl(Pending(t))
             data == get_data(body)
         IN  /\ get_response(status, url) = "raise"
             /\ Finish(t, [outcome |-> "ApiError", data |-> data,
                           status |-> status, url |-> url],
                       Append(log[t], RespEvent(status, data, url)))

\* requests.request raises (connection error, timeout): no frame catches it.
\* Variant that sends the same request once more when a send got no answer.
TransportFail_resend(t) ==
    /\ pc[t] = "wait"
    /\ log' = [log EXCEPT ![t] = @ \o <<[ev |-> "fail"], Last(log[t])>>]
    /\ UNCHANGED <<threads, api, identity, store, paired_cache, old_params,
                   heap, params, pc, stack, result, call>>

TransportFail(t) ==
    /\ pc[t] = "wait"
    /\ Finish(t, [outcome |-> "TransportError", data |-> None, status |-> 0,
                  url |-> <<>>],
              Append(log[t], [ev |-> "fail"]))

\* ------------------------------------------------------------- environment
\* Time passes and a token's expiry is reached.  Expiry is read by
\* check_token only, in the first step of a call, so time steps are taken
\* while some caller is between two calls.
TimePasses ==
    /\ \E t \in threads : pc[t] = "idle"
    /\ ~identity.expired
    /\ identity' = [identity EXCEPT !.expired = TRUE]
    /\ store' = [store EXCEPT !.expired = @ \/ store.access = identity.access]
    /\ UNCHANGED <<threads, api, paired_cache, old_params, heap, params, pc, stack,
                   log, result, call>>

\* Another process refreshes the expired token and persists the new identity.
OtherProcessSaves ==
    /\ \E t \in threads : pc[t] = "idle"
    /\ store.expired
    /\ \E td \in TokensAfter(store.access) :
         /\ store' = save(<<"obj", td>>)
         /\ store' # store
    /\ UNCHANGED <<threads, api, identity, paired_cache, old_params, heap, params,
                   pc, stack, log, result, call>>

Next ==
    \/ \E t \in Threads : Request(t)
    \/ \E t \in Threads : RequestSame(t)
    \/ \E t \in Threads : GetCode(t)
    \/ \E t \in Threads : IsPaired(t)
    \/ \E t \in Threads : RespondOk(t)
    \/ \E t \in Threads : RespondRefreshed(t)
    \/ \E t \in Threads : RespondAuthExpired(t)
    \/ \E t \in Threads : RespondError(t)
    \/ \E t \in Threads : TransportFail(t)
    \/ \E t \in Threads : CallerContinues(t)
    \/ TimePasses
    \/ OtherProcessSaves

Spec == Init /\ [][Next]_vars

\* Two caller threads share the paired device's identity, the store and the
\* DeviceApi instance; each makes one request() call, and the calls overlap
\* in every possible way.
InitConc ==
    /\ threads = {1, 2}
    /\ InitCommon
    /\ api = "device"
    /\ identity.refresh = <<"R", 1>>
    /\ identity.uuid = <<"xyz">>

\* What each of the two threads calls: one DeviceApi.get(), the other
\* DeviceApi.activate().
ConcSpecs == <<DeviceGet(<<"xyz">>), DeviceActivate(<<"st">>)>>

ConcRequest(t) == Request(t) /\ call'[t].lit = ConcSpecs[t]

NextConc ==
    \/ \E t \in Threads : ConcRequest(t)
    \/ \E t \in Threads : RespondOk(t)
    \/ \E t \in Threads : RespondRefreshed(t)
    \/ \E t \in Threads : RespondAuthExpired(t)
    \/ \E t \in Threads : RespondError(t)
    \/ \E t \in Threads : TransportFail(t)
    \/ TimePasses

SpecConc == InitConc /\ [][NextConc]_vars

\* ================================================================== claims
IsSend(e, kind) == e.ev = "send" /\ e.kind = kind

IsResp(e) == e.ev = "resp"

Is2xx(status) == status \in 200..299

TokenUrl(url) == EndsWith(url, "auth/token")

\* The caller's dict, as passed, names no Authorization header.
NoAuthorizationGiven(lit) ==
    "headers" \notin DOMAIN lit \/ "Authorization" \notin DOMAIN lit["headers"]

\* C1: in a logical request, after the original send at most one refresh
\* request and at most one retry are sent, and a 401 answer to the retry (on a
\* URL that is not the token URL) is the end of the call: request() raises an
\* ApiError.
C1_Double401 ==
    \A t \in Threads :
        LET L == log[t] IN
        /\ Cardinality({i \in DOMAIN L : IsSend(L[i], "retry")}) <= 1
        /\ Cardinality({i \in DOMAIN L :
               IsSend(L[i], "refresh") /\ \E j \in 1..(i - 1) : IsSend(L[j], "orig")})
              <= 1
        /\ \A i \in DOMAIN L :
              (i > 1 /\ IsResp(L[i]) /\ L[i].status = 401 /\ ~TokenUrl(L[i].url)
                 /\ IsSend(L[i - 1], "retry"))
              => /\ i = Len(L)
                 /\ pc[t] = "done"
                 /\ (call[t].op = "request" => result[t].outcome = "ApiError")

\* C3: a logical request never nests send calls deeper than 2, and it ends
\* with data returned, an ApiError or a TransportError.
C3_ThreeOutcomesDepthTwo ==
    \A t \in Threads :
        /\ Len(stack[t]) <= 2
        /\ (pc[t] = "done" /\ call[t].op = "request")
              => result[t].outcome \in {"data", "ApiError", "TransportError"}

\* C4: when the caller's dict names no Authorization header, every send of
\* the request itself (first attempt or retry) carries "Bearer " + the access
\* token the identity holds at the moment of that send.
C4_BearerCurrentAccess ==
    \A t \in Threads :
        NoAuthorizationGiven(call[t].lit) =>
            \A i \in DOMAIN log[t] :
                (IsSend(log[t][i], "orig") \/ IsSend(log[t][i], "retry"))
                => log[t][i].req.headers["Authorization"]
                      = Bearer(log[t][i].access)

\* The case of C2: the call has ended, the token was not expired (the first
\* thing the call did was to send the request itself), the first answer was a
\* 401 on a URL other than the token URL, and every later request was sent
\* and answered with a 2xx status.
C2_Case(t) ==
    LET L == log[t] IN
    /\ pc[t] = "done"
    /\ call[t].op = "request"
    /\ Len(L) >= 2
    /\ IsSend(L[1], "orig")
    /\ IsResp(L[2]) /\ L[2].status = 401 /\ ~TokenUrl(L[2].url)
    /\ \A i \in 3..Len(L) :
          /\ L[i].ev # "fail"
          /\ IsResp(L[i]) => Is2xx(L[i].status)

\* C2: in that case exactly three requests were sent, the original, one
\* refresh request and one retry, in this order, the token data of the refresh
\* answer was saved in between, and request() returned the parsed data of the
\* answer to the retry.
C2_RefreshThenRetry ==
    \A t \in Threads :
        C2_Case(t) =>
            LET L == log[t] IN
            /\ Len(L) = 7
            /\ IsSend(L[3], "refresh")
            /\ IsResp(L[4])
            /\ L[5].ev = "save" /\ L[5].data = L[4].data
            /\ IsSend(L[6], "retry")
            /\ IsResp(L[7])
            /\ {i \in DOMAIN L : L[i].ev = "send"} = {1, 3, 6}
            /\ result[t].outcome = "data"
            /\ result[t].data = L[7].data
            /\ result[t].data \in {get_data(b) : b \in Bodies}

C2_Witness ==
    \E t \in Threads :
        /\ C2_Case(t)
        /\ Len(log[t]) = 7
        /\ result[t].outcome = "data"
        /\ result[t].data = <<"str", "plain">>
        /\ log[t][6].access # log[t][1].access
\* ---- steps in which thread t, waiting in requests.request, gets an outcome
Answered(t) == pc[t] = "wait" /\ log'[t] # log[t]

\* the request that is answered, and the first thing logged in the step
Asked(t) == Last(log[t])
NewEvent(t) == log'[t][Len(log[t]) + 1]

\* The step ends the call with nothing else sent or saved and the identity,
\* in memory and persisted, as it was.
EndsCall(t) ==
    /\ pc'[t] = "done"
    /\ Len(log'[t]) = Len(log[t]) + 1
    /\ identity' = identity
    /\ store' = store

\* request() hands res to its caller (is_paired turns an error into False).
Hands(t, res) ==
    /\ call[t].op = "request" => result'[t] = res
    /\ (call[t].op = "is_paired" /\ res.outcome # "data")
          => result'[t].outcome = "false"

ApiErrorOf(r) ==
    [outcome |-> "ApiError", data |-> r.data, status |-> r.status, url |-> r.url]

TransportErrorRaised ==
    [outcome |-> "TransportError", data |-> None, status |-> 0, url |-> <<>>]

\* C5: the cache never goes back from true to false, a call that returns
\* true leaves it true, and a call made while it is true returns true at
\* once, without any request.
C5_CachedTrue ==
    [][\A t \in Threads :
          /\ paired_cache => paired_cache'
          /\ (result'[t].outcome = "true" /\ pc'[t] = "done" /\ pc[t] # "done")
                => paired_cache'
          /\ (paired_cache /\ pc[t] = "idle" /\ pc'[t] # "idle"
                /\ call'[t].op = "is_paired")
                => /\ pc'[t] = "done"
                   /\ result'[t].outcome = "true"
                   /\ log'[t] = <<>>
                   /\ identity' = identity]_vars

C5_Witness ==
    \E t \in Threads :
        /\ pc[t] = "done"
        /\ call[t].op = "is_paired"
        /\ result[t].outcome = "true"
        /\ log[t] = <<>>
        /\ identity.uuid = <<>>
        /\ identity.expired

\* The check of an is_paired call failed: the DeviceApi could not be built or
\* the path not be formed, the last request got no answer, or its answer was
\* not a 2xx one.
C6_Failed(L) ==
    /\ L # <<>>
    /\ \/ Last(L).ev \in {"except", "fail"}
       \/ IsResp(Last(L)) /\ ~Is2xx(Last(L).status)

\* C6: an is_paired call ends by returning true or false, never by raising;
\* when the cache is false and the check fails it returns false and the cache
\* stays false; and false is never answered from the cache: a call that ends
\* without having tried the check returns the cached true.
C6_NeverRaises ==
    [][\A t \in Threads :
          (call'[t].op = "is_paired" /\ pc'[t] = "done" /\ pc[t] # "done")
          => /\ result'[t].outcome \in {"true", "false"}
             /\ (log'[t] = <<>>) => (paired_cache /\ result'[t].outcome = "true")
             /\ (~paired_cache /\ C6_Failed(log'[t]))
                   => (result'[t].outcome = "false" /\ ~paired_cache')]_vars

C6_Witness ==
    \E t \in Threads :
        /\ pc[t] = "done"
        /\ call[t].op = "is_paired"
        /\ result[t].outcome = "false"
        /\ ~paired_cache
        /\ Len(log[t]) >= 4
        /\ IsSend(log[t][Len(log[t]) - 1], "refresh")
        /\ Last(log[t]).ev = "fail"
        /\ identity.uuid = <<"xyz">>

\* C7: an answer with a status in [200,300) to the request itself ends the
\* call with the parsed data of that answer; an answer with any other status,
\* unless it is a 401 on a URL other than the token URL, ends the call with an
\* ApiError that carries the status, data and URL of that answer.  Either way
\* nothing more is sent, nothing is saved and the identity is unchanged.
C7_Classification ==
    [][\A t \in Threads :
          (Answered(t) /\ IsResp(NewEvent(t)))
          => LET r == NewEvent(t) IN
             /\ r.url = ResponseUrl(Asked(t).req)
             /\ (Is2xx(r.status) /\ Asked(t).kind # "refresh")
                   => /\ EndsCall(t)
                      /\ Hands(t, [outcome |-> "data", data |-> r.data,
                                   status |-> r.status, url |-> r.url])
             /\ (~Is2xx(r.status) /\ ~(r.status = 401 /\ ~TokenUrl(r.url)))
                   => (EndsCall(t) /\ Hands(t, ApiErrorOf(r)))]_vars

C7_Witness ==
    \E t \in Threads :
        /\ pc[t] = "done"
        /\ call[t].op = "request"
        /\ result[t].outcome = "ApiError"
        /\ result[t].status = 300
        /\ IsSend(log[t][Len(log[t]) - 1], "retry")

\* C8: a 401 answer to a request whose URL ends with "auth/token" ends the
\* call with an ApiError and nothing more is sent; and no send is ever nested
\* inside the send of a refresh request.
C8_TokenUrlNoRefresh ==
    [][\A t \in Threads :
          /\ \A i \in 1..(Len(stack'[t]) - 1) : stack'[t][i] # "refresh"
          /\ (Answered(t) /\ IsResp(NewEvent(t)) /\ NewEvent(t).status = 401
                /\ TokenUrl(Asked(t).req.url))
                => (EndsCall(t) /\ Hands(t, ApiErrorOf(NewEvent(t))))]_vars

C8_Witness ==
    \E t \in Threads :
        /\ pc[t] = "done"
        /\ call[t].op = "request"
        /\ result[t].outcome = "ApiError"
        /\ result[t].status = 401
        /\ IsSend(log[t][Len(log[t]) - 1], "refresh")
        /\ \E i \in DOMAIN log[t] : IsSend(log[t][i], "orig")

\* C9: when the refresh request, sent by check_token or after a 401, gets no
\* answer or an answer that is not a 2xx one, the call ends with that error,
\* nothing is saved, the identity is unchanged and nothing more is sent.
C9_RefreshFailureFatal ==
    [][\A t \in Threads :
          (Answered(t) /\ Asked(t).kind = "refresh")
          => /\ NewEvent(t).ev = "fail"
                   => (EndsCall(t) /\ Hands(t, TransportErrorRaised))
             /\ (IsResp(NewEvent(t)) /\ ~Is2xx(NewEvent(t).status))
                   => (EndsCall(t) /\ Hands(t, ApiErrorOf(NewEvent(t))))]_vars

C9_Witness ==
    \E t \in Threads :
        /\ pc[t] = "done"
        /\ call[t].op = "request"
        /\ result[t].outcome = "ApiError"
        /\ result[t].status = 500
        /\ Len(log[t]) = 3
        /\ log[t][1].ev = "load"
        /\ IsSend(log[t][2], "refresh")

\* C10: when a send gets no answer, the call ends with the TransportError:
\* nothing more is sent, nothing is saved and the identity is unchanged.
C10_TransportNoRetry ==
    [][\A t \in Threads :
          (Answered(t) /\ NewEvent(t).ev = "fail")
          => (EndsCall(t) /\ Last(log'[t]).ev = "fail"
                /\ Hands(t, TransportErrorRaised))]_vars

C10_Witness ==
    \E t \in Threads :
        /\ pc[t] = "done"
        /\ call[t].op = "request"
        /\ result[t].outcome = "TransportError"
        /\ Last(log[t]).ev = "fail"
        /\ IsSend(log[t][Len(log[t]) - 1], "retry")
\* ---- steps in which thread t sends a request of the given kind
Sends(t, kind) ==
    /\ log'[t] # log[t]
    /\ log'[t] # <<>>
    /\ IsSend(Last(log'[t]), kind)

\* C11: every refresh request goes out with method POST, to the URL
\* base + "/" + configured version + "/auth/token", with Authorization
\* "Bearer " + the identity's refresh token; and what is saved after a
\* successful refresh is the data of the refresh response as it came.
C11_RefreshWire ==
    [][\A t \in Threads :
          /\ Sends(t, "refresh")
                => LET req == Last(log'[t]).req IN
                   /\ req.method = "POST"
                   /\ req.url = ServerUrl \o <<"/">> \o ServerVersion
                                   \o <<"/", "auth/token">>
                   /\ req.headers["Authorization"] = Bearer(identity'.refresh)
          /\ \A i \in DOMAIN log'[t] :
                log'[t][i].ev = "save"
                => /\ IsResp(log'[t][i - 1])
                   /\ log'[t][i].data = log'[t][i - 1].data]_vars
\* Thread t is waiting for the answer to a refresh request.
RefreshInFlight(t) ==
    pc[t] = "wait" /\ IsSend(Last(log[t]), "refresh")

\* C12: refreshes of the shared identity are serialized: two calls never have
\* a refresh request for the same access token in flight at the same time.
C12_SerializedRefresh ==
    \A t1, t2 \in Threads :
        (t1 # t2 /\ RefreshInFlight(t1) /\ RefreshInFlight(t2))
        => Last(log[t1]).access # Last(log[t2]).access
\* C13: at the moment a retry is sent, the dict kept in self.old_params has
\* exactly the contents of the dict the caller passed, with the resource path
\* prefixed to its path: method, version, query, data, json and headers are
\* the caller's, with no header added by the first attempt.
C13_RetainedSpecOriginal ==
    [][\A t \in Threads :
          Sends(t, "retry")
          => Deep(heap, old_params[call[t].client])
                = build_path(ApiInit(call[t].client), call[t].lit)]_vars
\* C14: when a retry is sent, the three events before it in the call are the
\* refresh request, its 2xx answer and the save of that answer's data, in
\* this order; and in the state in which the retry is on the wire the
\* in-memory identity and the store hold the access token of that answer.
C14_SaveBeforeRetry ==
    [][\A t \in Threads :
          pc[t] = "wait"
          => \A i \in DOMAIN log'[t] :
                (i > Len(log[t]) /\ IsSend(log'[t][i], "retry"))
                => LET L == log'[t] IN
                   /\ i >= 4
                   /\ i = Len(L)
                   /\ IsSend(L[i - 3], "refresh")
                   /\ IsResp(L[i - 2]) /\ Is2xx(L[i - 2].status)
                   /\ L[i - 1] = [ev |-> "save", data |-> L[i - 2].data]
                   /\ identity'.access = L[i - 2].data[2].accessToken
                   /\ store'.access = L[i - 2].data[2].accessToken
                   /\ L[i].access = identity'.access]_vars

\* a retry on the wire after a refresh that changed the access token
C14_Witness ==
    \E t \in Threads :
        /\ pc[t] = "wait"
        /\ IsSend(Last(log[t]), "retry")
        /\ log[t][Len(log[t]) - 1].ev = "save"
        /\ identity.access = <<"A", 2>>
        /\ log[t][1].access = <<"A", 1>>
\* Thread t enters request() in this step (and reaches its first send).
EntersRequest(t) == pc[t] # "wait" /\ pc'[t] = "wait"

\* C15: request() reloads the identity exactly when the in-memory identity
\* has a refresh token and is expired, and sends a pre-emptive refresh request
\* exactly when, in addition, the reloaded identity is expired; otherwise the
\* first thing it sends is the request itself.  The request itself is first
\* sent either at once, or right after the reload, or after the pre-emptive
\* refresh request was answered with a 2xx status and its data was saved.
C15_CheckToken ==
    [][\A t \in Threads :
          /\ EntersRequest(t)
                => LET L == log'[t]
                       stale == identity.refresh # <<>> /\ identity.expired
                   IN  /\ (L[1].ev = "load") <=> stale
                       /\ IsSend(Last(L), "refresh") <=> (stale /\ store.expired)
                       /\ IsSend(Last(L), "orig") <=> ~(stale /\ store.expired)
                       /\ Len(L) = IF stale THEN 2 ELSE 1
                       /\ store' = store
                       /\ identity'.access =
                             IF stale THEN store.access ELSE identity.access
          /\ \A i \in DOMAIN log'[t] :
                IsSend(log'[t][i], "orig")
                => LET L == log'[t] IN
                   \/ i = 1
                   \/ i = 2 /\ L[1].ev = "load"
                   \/ /\ i = 5
                      /\ L[1].ev = "load"
                      /\ IsSend(L[2], "refresh")
                      /\ IsResp(L[3]) /\ Is2xx(L[3].status)
                      /\ L[4].ev = "save"]_vars

\* a call that reloaded the identity, found it fresh and sent no refresh
C15_Witness ==
    \E t \in Threads :
        /\ Len(log[t]) = 2
        /\ log[t][1].ev = "load"
        /\ IsSend(log[t][2], "orig")
        /\ log[t][2].access = <<"A", 2>>
\* Thread t passes the dict object of its last request() call again.
PassesSameDict(t) ==
    pc[t] = "done" /\ pc'[t] = "wait" /\ call'[t].reuse = call[t].reuse + 1

\* The request of the first attempt of the call whose log is L.
FirstAttempt(L) == L[CHOOSE i \in DOMAIN L : IsSend(L[i], "orig")]

HasFirstAttempt(L) == \E i \in DOMAIN L : IsSend(L[i], "orig")

\* C16: when a request has been resolved and sent, the dict the caller passed
\* has the contents it had when it was passed; and a caller that passes the
\* same dict object again, the identity holding the same access token, has
\* the same URL, headers and bodies sent as the first time.
C16_ResolutionPure ==
    [][\A t \in Threads :
          /\ (EntersRequest(t) /\ IsSend(Last(log'[t]), "orig"))
                => Deep(heap', params'[t]) = call'[t].lit
          /\ (PassesSameDict(t) /\ HasFirstAttempt(log[t])
                /\ HasFirstAttempt(log'[t])
                /\ FirstAttempt(log[t]).access = FirstAttempt(log'[t]).access)
                => FirstAttempt(log'[t]).req = FirstAttempt(log[t]).req]_vars
\* The URL the claim gives for the dict lit passed to client c.
ExpectedUrl(c, lit) ==
    ServerUrl \o <<"/">> \o Get(lit, "version", ServerVersion) \o <<"/">>
        \o ApiInit(c).path \o Get(lit, "path", <<>>)

\* C17: every send of the request itself, first attempt or retry, goes to
\* base URL + "/" + version + "/" + resource path + the path of the dict as
\* the caller passed it, the version being the dict's if it has one and the
\* configured one otherwise.
C17_Url ==
    \A t \in Threads :
        \A i \in DOMAIN log[t] :
            (IsSend(log[t][i], "orig") \/ IsSend(log[t][i], "retry"))
            => log[t][i].req.url = ExpectedUrl(call[t].client, call[t].lit)

\* a retry of a request whose dict overrides the version
C17_Witness ==
    \E t \in Threads :
        /\ pc[t] = "wait"
        /\ IsSend(Last(log[t]), "retry")
        /\ "version" \in DOMAIN call[t].lit
        /\ Last(log[t]).req.url
              = <<"https://api.test", "/", "v2", "/", "device", "/y">>
\* The call whose log is L ended with a 2xx answer to the request itself:
\* DeviceApi.get() returned.
GetSucceeded(L) ==
    /\ Len(L) >= 2
    /\ IsResp(Last(L)) /\ Is2xx(Last(L).status)
    /\ L[Len(L) - 1].ev = "send" /\ L[Len(L) - 1].kind # "refresh"

\* C18: an is_paired call made with a false cache returns true only if its
\* get() succeeded and the identity's uuid is then neither None nor the empty
\* string; when get() succeeded and the uuid is empty it returns false and
\* the cache stays false.
C18_TrueOnlyIfPaired ==
    [][\A t \in Threads :
          (call'[t].op = "is_paired" /\ pc'[t] = "done" /\ pc[t] # "done"
             /\ ~paired_cache)
          => /\ result'[t].outcome = "true"
                   => /\ GetSucceeded(log'[t])
                      /\ identity'.uuid # None
                      /\ identity'.uuid # <<>>
             /\ (GetSucceeded(log'[t]) /\ identity'.uuid = <<>>)
                   => (result'[t].outcome = "false" /\ ~paired_cache')]_vars

\* get() succeeded with an empty uuid
C18_Witness ==
    \E t \in Threads :
        /\ pc[t] = "done"
        /\ call[t].op = "is_paired"
        /\ GetSucceeded(log[t])
        /\ identity.uuid = <<>>
        /\ result[t].outcome = "false"
        /\ ~paired_cache
\* The Content-Type the claim gives for the dict lit: the caller's, or the
\* default when the caller named none.
FinalContentType(lit) ==
    IF "headers" \in DOMAIN lit /\ "Content-Type" \in DOMAIN lit["headers"]
    THEN lit["headers"]["Content-Type"]
    ELSE <<"application/json">>

\* C19: every send of a request whose dict has a JSON body carries the final
\* Content-Type, and as JSON body the caller's with every "" replaced by null
\* and all else unchanged if that Content-Type is "application/json", and the
\* caller's unchanged if it is anything else.
C19_JsonNormalization ==
    \A t \in Threads :
        \A i \in DOMAIN log[t] :
            ((IsSend(log[t][i], "orig") \/ IsSend(log[t][i], "retry"))
               /\ "json" \in DOMAIN call[t].lit)
            => LET lit == call[t].lit
                   req == log[t][i].req
               IN  /\ req.headers["Content-Type"] = FinalContentType(lit)
                   /\ req.json = IF FinalContentType(lit) = <<"application/json">>
                                 THEN NullEmpty(lit.json)
                                 ELSE lit.json

\* a JSON body with an empty string sent as it is under text/plain
C19_Witness ==
    \E t \in Threads :
        /\ pc[t] = "wait"
        /\ IsSend(Last(log[t]), "retry")
        /\ Last(log[t]).req.headers["Content-Type"] = <<"text/plain">>
        /\ Last(log[t]).req.json = [a |-> <<>>, b |-> <<"x">>]
\* Method, URL, query and bodies of a request on the wire.
WireSpec(req) ==
    [method |-> req.method, url |-> req.url, query |-> req.query,
     data |-> req.data, json |-> req.json]

\* C20: whatever the interleaving of two request() calls on one client
\* instance, every retry a call sends has the method, URL, query and bodies
\* of the first attempt of that same call.
C20_RetryOwnSpec ==
    \A t \in Threads :
        \A i, j \in DOMAIN log[t] :
            (IsSend(log[t][i], "retry") /\ IsSend(log[t][j], "orig"))
            => WireSpec(log[t][i].req) = WireSpec(log[t][j].req)
====
